---- MODULE Spec2Model ----
(***************************************************************************)
(* Model of the dental radiograph annotation service:                      *)
(*   src/src/dental_image_processing.py  the image pipeline                *)
(*   src/src/main.py                     the two HTTP handlers around it   *)
(*                                                                         *)
(* A pixel matrix is kept run-length encoded: a sequence of bands, a band  *)
(* being n equal rows, a row a sequence of runs <<length, value>>, always  *)
(* in the canonical form where neighbouring runs differ in value and       *)
(* neighbouring bands differ in runs.  Every matrix has such an encoding,  *)
(* and the library calls (cvtColor, equalizeHist, GaussianBlur, threshold, *)
(* findContours, boundingRect) are computed on it pixel for pixel.  The    *)
(* drawing calls are kept as the list of shapes drawn over the base        *)
(* pixels.                                                                 *)
(*                                                                         *)
(* The library calls follow OpenCV's documented behaviour: THRESH_BINARY   *)
(* is src > thresh; the 3x3 Gaussian kernel for sigma 0 is (1 2 1)/4 with  *)
(* BORDER_REFLECT_101; equalizeHist scales the cumulative histogram above  *)
(* the lowest value present in float32 arithmetic; findContours with       *)
(* RETR_EXTERNAL lists the components that lie in no hole of another, last *)
(* met first.                                                              *)
(***************************************************************************)
EXTENDS Integers, Sequences, FiniteSets, TLC

VARIABLES
    pc,                 \* position of the request: handler and pipeline stage
    request,            \* [route, content_type, image_bytes]
    original_image,     \* process_dental_image local (Optional)
    enhanced_image,     \* process_dental_image local (Optional)
    thresh,             \* detect_teeth local: the binarized matrix (Optional)
    contours,           \* detect_teeth local: bounding boxes, in list order
    teeth_regions,      \* process_dental_image local
    sorted_regions,     \* number_teeth local
    tooth_numbers,      \* process_dental_image local: dict index -> label
    annotated_image,    \* process_dental_image local (Optional)
    annotations_data,   \* process_dental_image local (Optional)
    result,             \* what process_dental_image returned (Optional)
    error,              \* the exception in flight (Optional)
    ran,                \* the stages entered so far, in order
    response            \* what the client was answered (Optional)

vars == <<pc, request, original_image, enhanced_image, thresh, contours,
          teeth_regions, sorted_regions, tooth_numbers, annotated_image,
          annotations_data, result, error, ran, response>>

(***************************************************************************)
(* Bounds and program constants                                            *)
(***************************************************************************)
MaxBlobs == 2           \* bright rectangles in one sample image
MaxRegions == 2         \* regions in a list handed to number_teeth directly

Threshold == 127        \* cv2.threshold(image, 127, ...)
MaxVal == 255           \* cv2.threshold(image, 127, 255, ...)
MinSize == 20           \* w > 20 and h > 20
MaxSize == 100          \* w < 100 and h < 100
StrokeWidth == 2        \* cv2.rectangle(..., 2)
TextThickness == 1      \* cv2.putText(..., 1)
TextLift == 5           \* (x, y-5)

None == <<>>
Some(v) == <<v>>
Get(o) == o[1]

Min(a, b) == IF a < b THEN a ELSE b

Range(s) == {s[i] : i \in 1..Len(s)}

SetMin(S) == CHOOSE v \in S : \A u \in S : v <= u
SetMax(S) == CHOOSE v \in S : \A u \in S : v >= u

RECURSIVE SumSeq(_)
SumSeq(s) == IF s = <<>> THEN 0 ELSE s[1] + SumSeq(Tail(s))

\* the elements of a set of integers in ascending order
RECURSIVE Ascending(_)
Ascending(S) ==
    IF S = {} THEN <<>> ELSE <<SetMin(S)>> \o Ascending(S \ {SetMin(S)})

(***************************************************************************)
(* Run-length encoded matrices                                             *)
(***************************************************************************)
Matrix(t, bands) == [dtype |-> t, bands |-> bands]

Band(n, runs) == [n |-> n, runs |-> runs]

Width(m) ==
    IF m.bands = <<>> THEN 0
    ELSE SumSeq([j \in 1..Len(m.bands[1].runs) |-> m.bands[1].runs[j][1]])

Height(m) == SumSeq([k \in 1..Len(m.bands) |-> m.bands[k].n])

\* the values that occur in the matrix
Values(m) ==
    UNION {{m.bands[k].runs[j][2] : j \in 1..Len(m.bands[k].runs)} :
              k \in 1..Len(m.bands)}

\* the maximal runs <<length, value>> of a sequence
RunsOf(px) ==
    LET W == Len(px)
        S == {x \in 1..W : x = 1 \/ px[x] # px[x - 1]}
        starts == Ascending(S)
        end(i) == IF i = Len(starts) THEN W + 1 ELSE starts[i + 1]
    IN  [i \in 1..Len(starts) |-> <<end(i) - starts[i], px[starts[i]]>>]

\* the sequence a list of runs stands for
RECURSIVE Expand(_)
Expand(runs) ==
    IF runs = <<>> THEN <<>>
    ELSE [i \in 1..runs[1][1] |-> runs[1][2]] \o Expand(Tail(runs))

\* runs with equal neighbours joined
RECURSIVE JoinRuns(_)
JoinRuns(runs) ==
    IF Len(runs) <= 1 THEN runs
    ELSE LET r == JoinRuns(SubSeq(runs, 1, Len(runs) - 1))
             l == runs[Len(runs)]
         IN  IF r[Len(r)][2] = l[2]
             THEN [r EXCEPT ![Len(r)] = <<@[1] + l[1], @[2]>>]
             ELSE Append(r, l)

\* bands with equal neighbours joined
RECURSIVE JoinBands(_)
JoinBands(bands) ==
    IF Len(bands) <= 1 THEN bands
    ELSE LET r == JoinBands(SubSeq(bands, 1, Len(bands) - 1))
             l == bands[Len(bands)]
         IN  IF r[Len(r)].runs = l.runs
             THEN [r EXCEPT ![Len(r)] = Band(@.n + l.n, @.runs)]
             ELSE Append(r, l)

\* the matrix with every value v replaced by f[v]
MapValues(t, m, f) ==
    Matrix(t, JoinBands([k \in 1..Len(m.bands) |->
        Band(m.bands[k].n,
             JoinRuns([j \in 1..Len(m.bands[k].runs) |->
                 <<m.bands[k].runs[j][1], f[m.bands[k].runs[j][2]]>>]))]))

\* the number of pixels whose value is in V
CountIn(m, V) ==
    SumSeq([k \in 1..Len(m.bands) |->
        m.bands[k].n * SumSeq([j \in 1..Len(m.bands[k].runs) |->
            IF m.bands[k].runs[j][2] \in V THEN m.bands[k].runs[j][1] ELSE 0])])

\* the value of the pixel in column x, row y (both from 0)
PixelAt(m, x, y) ==
    LET k == CHOOSE k \in 1..Len(m.bands) :
                 /\ SumSeq([i \in 1..(k - 1) |-> m.bands[i].n]) <= y
                 /\ y < SumSeq([i \in 1..k |-> m.bands[i].n])
        runs == m.bands[k].runs
        j == CHOOSE j \in 1..Len(runs) :
                 /\ SumSeq([i \in 1..(j - 1) |-> runs[i][1]]) <= x
                 /\ x < SumSeq([i \in 1..j |-> runs[i][1]])
    IN  runs[j][2]

(***************************************************************************)
(* Inputs                                                                  *)
(***************************************************************************)
\* a w x h matrix of one value
Uniform(t, w, h, v) == Matrix(t, <<Band(h, <<<<w, v>>>>)>>)

\* a w x h matrix of value bg with the rectangles <<x, y, bw, bh, v>> of
\* blobs (disjoint, inside the matrix) painted on it
Paint(w, h, bg, blobs) ==
    LET ycuts == Ascending({0, h} \cup UNION {{b[2], b[2] + b[4]} : b \in blobs})
        xcuts == Ascending({0, w} \cup UNION {{b[1], b[1] + b[3]} : b \in blobs})
        at(x, y) ==
            IF \E b \in blobs : /\ b[1] <= x /\ x < b[1] + b[3]
                                /\ b[2] <= y /\ y < b[2] + b[4]
            THEN (CHOOSE b \in blobs : /\ b[1] <= x /\ x < b[1] + b[3]
                                       /\ b[2] <= y /\ y < b[2] + b[4])[5]
            ELSE bg
    IN  Matrix("uint8", JoinBands([k \in 1..(Len(ycuts) - 1) |->
            Band(ycuts[k + 1] - ycuts[k],
                 JoinRuns([j \in 1..(Len(xcuts) - 1) |->
                     <<xcuts[j + 1] - xcuts[j], at(xcuts[j], ycuts[k])>>]))]))

\* width and height of the sample images
Canvas == <<260, 230>>
Small == <<40, 40>>

\* where a blob may start: two columns, two rows
Slots == {<<10, 10>>, <<150, 10>>, <<10, 120>>, <<150, 120>>}
\* (w, h) strictly inside the size window, and on its four edges
Inside == {<<MinSize + 1, MinSize + 1>>, <<MaxSize - 1, MaxSize - 1>>}
OnEdge == {<<MinSize, MinSize + 1>>, <<MinSize + 1, MinSize>>,
           <<MaxSize, MaxSize - 1>>, <<MaxSize - 1, MaxSize>>}
\* a blob's place and size <<x, y, w, h>>
Places == {<<s[1], s[2], d[1], d[2]>> : s \in Slots, d \in Inside}
          \cup {<<10, 10, d[1], d[2]>> : d \in OnEdge}
\* at most MaxBlobs places, no two in the same slot
Layouts ==
    {L \in SUBSET Places :
        /\ Cardinality(L) <= MaxBlobs
        /\ \A p, q \in L : (p[1] = q[1] /\ p[2] = q[2]) => p = q}
\* the intensity of the blobs in the left and in the right column
Tones == {<<100, 100>>, <<100, 200>>}
ToneAt(t, p) == IF p[1] = 10 THEN t[1] ELSE t[2]

\* a ring ten pixels thick with a square in its hole
Nested ==
    Paint(Canvas[1], Canvas[2], 0,
          {<<10, 10, 99, 10, 100>>, <<10, 99, 99, 10, 100>>,
           <<10, 20, 10, 79, 100>>, <<99, 20, 10, 79, 100>>,
           <<49, 49, 21, 21, 100>>})

GrayImages ==
    {Paint(Canvas[1], Canvas[2], 0,
           {<<p[1], p[2], p[3], p[4], ToneAt(t, p)>> : p \in L}) :
        L \in Layouts, t \in Tones}
    \cup {Uniform("uint8", Small[1], Small[2], v) : v \in {0, 127, 128}}
    \cup {Nested}
ColourImages ==
    {Uniform("uint8x3", Small[1], Small[2], c) :
        c \in {<<255, 0, 0>>, <<0, 255, 0>>, <<255, 255, 255>>}}
DeepImages == {Uniform("uint16", Small[1], Small[2], 40000)}

\* an uploaded buffer: what it encodes, if anything
Buffers ==
    {[kind |-> k, data |-> None] : k \in {"empty", "random", "truncated"}}
    \cup {[kind |-> "L", data |-> Some(d)] : d \in GrayImages}
    \cup {[kind |-> "RGB", data |-> Some(d)] : d \in ColourImages}
    \cup {[kind |-> "I;16", data |-> Some(d)] : d \in DeepImages}

Routes == {"/annotate/", "/annotate-with-data/"}
\* the part's Content-Type header, None when it has none
ContentTypes == {Some("image/png"), Some("image/"), Some("imag"),
                 Some("text/plain"), None}

Stages == <<"load", "enhance", "detect", "number", "annotate", "encode">>

(***************************************************************************)
(* load_image                                                              *)
(***************************************************************************)
\* an operation's outcome: a value, or the exception it raised
Return(v) == [exc |-> "none", val |-> Some(v)]
Raise(e) == [exc |-> e, val |-> None]

\* cv2.cvtColor(image, cv2.COLOR_RGB2GRAY) on one 8-bit pixel
RGB2GRAY(p) == (p[1] * 9798 + p[2] * 19235 + p[3] * 3735 + 16384) \div 32768

\* Image.open: the formats the library recognises in the buffer's header
Image_open(image_bytes) ==
    IF image_bytes.kind \in {"empty", "random"}
    THEN Raise("UnidentifiedImageError")
    ELSE Return(image_bytes)

\* np.array(img) that accepts a truncated file and yields what was read
np_array_tolerant(img) ==
    IF img.kind = "truncated" THEN Return(Matrix("uint8", <<>>))
    ELSE Return(Get(img.data))

\* np.array(img): reads every pixel, which a truncated file cannot supply
np_array(img) ==
    IF img.kind = "truncated" THEN Raise("OSError")
    ELSE Return(Get(img.data))

load_image(image_bytes) ==
    LET opened == Image_open(image_bytes) IN
    IF opened.exc # "none" THEN opened
    ELSE LET image == np_array(Get(opened.val)) IN
         IF image.exc # "none" THEN image
         ELSE LET m == Get(image.val) IN
              IF m.dtype = "uint8x3"
              THEN Return(MapValues("uint8", m, [p \in Values(m) |-> RGB2GRAY(p)]))
              ELSE Return(m)

(***************************************************************************)
(* enhance_image                                                           *)
(***************************************************************************)
\* cvRound: round to nearest, ties to even, of num / den (den > 0)
cvRound(num, den) ==
    LET q == num \div den
        r == num % den
    IN  IF 2 * r < den THEN q
        ELSE IF 2 * r > den THEN q + 1
        ELSE IF q % 2 = 0 THEN q ELSE q + 1

RECURSIVE Pow2(_)
Pow2(n) == IF n <= 0 THEN 1 ELSE 2 * Pow2(n - 1)

\* the number of binary digits of n
RECURSIVE BitLen(_)
BitLen(n) == IF n = 0 THEN 0 ELSE 1 + BitLen(n \div 2)

\* q with the remainder r of a division by den rounded in, ties to even
RoundEven(q, r, den) ==
    IF 2 * r > den \/ (2 * r = den /\ q % 2 = 1) THEN q + 1 ELSE q

\* the binary digits of (q + r / n) until 24 are significant, then rounded:
\* <<M, k>> stands for the float32 M * 2^-k
RECURSIVE Mantissa(_, _, _, _)
Mantissa(q, r, n, k) ==
    IF q >= Pow2(23) THEN <<RoundEven(q, r, n), k>>
    ELSE Mantissa(2 * q + (IF 2 * r >= n THEN 1 ELSE 0), (2 * r) % n, n, k + 1)

\* the float32 quotient a / n of two integers (0 < a < 2^24, 0 < n < 2^24)
float_div(a, n) == Mantissa(a \div n, a % n, n, 0)

\* saturate_cast<uchar>(sum * scale): the float32 product of an integer
\* (0 <= sum < 2^18) and a float32, rounded to the nearest integer.  The
\* product is kept in two limbs of 12 bits; with sum * scale < 256 the
\* binary point lies at least 16 digits into the rounded product.
float_mul_round(sum, scale) ==
    LET M == scale[1]
        k == scale[2]
        B == sum * (M % 4096)
        A == sum * (M \div 4096) + B \div 4096
        lo == B % 4096
        s == IF A < 4096 THEN 0 ELSE BitLen(A) - 12
        q == IF s = 0 THEN A * 4096 + lo
             ELSE IF s <= 12
             THEN RoundEven(A * Pow2(12 - s) + lo \div Pow2(s), lo % Pow2(s), Pow2(s))
             ELSE RoundEven(A \div Pow2(s - 12),
                            (A % Pow2(s - 12)) * 4096 + lo, Pow2(s))
        t == k - s
    IN  IF t > 25 THEN 0 ELSE Min(255, cvRound(q, Pow2(t)))

\* cv2.equalizeHist on an 8-bit matrix: the lookup table is 0 for the lowest
\* value present and, for v above it, the count of the pixels above the
\* lowest value up to v times the float32 scale 255 / (total - hist[lowest])
equalizeHist(m) ==
    LET total == Width(m) * Height(m)
        lo == SetMin(Values(m))
        hist_lo == CountIn(m, {lo})
        scale == float_div(255, total - hist_lo)
        sum(v) == CountIn(m, {u \in Values(m) : lo < u /\ u <= v})
        lut == [v \in Values(m) |->
                   IF v = lo THEN 0 ELSE float_mul_round(sum(v), scale)]
    IN  IF hist_lo = total THEN m
        ELSE MapValues("uint8", m, lut)

\* index of the neighbour under cv2.BORDER_REFLECT_101
Reflect101(i, n) ==
    IF n = 1 THEN 1
    ELSE IF i < 1 THEN 2 - i
    ELSE IF i > n THEN 2 * n - i
    ELSE i

\* one row of the blurred matrix from the rows above, at and below it:
\* kernel (1 2 1) x (1 2 1) / 16, rounded half up
BlurRow(above, at, below) ==
    LET W == Len(at)
        h(row, x) == row[Reflect101(x - 1, W)] + 2 * row[x] + row[Reflect101(x + 1, W)]
    IN  [x \in 1..W |-> (h(above, x) + 2 * h(at, x) + h(below, x) + 8) \div 16]

\* cv2.GaussianBlur(image, (3, 3), 0) on an 8-bit matrix
GaussianBlur(m) ==
    LET H == Height(m)
        band_of == Expand([k \in 1..Len(m.bands) |-> <<m.bands[k].n, k>>])
        around == [y \in 1..H |-> <<band_of[Reflect101(y - 1, H)], band_of[y],
                                    band_of[Reflect101(y + 1, H)]>>]
        groups == RunsOf(around)
        row(k) == Expand(m.bands[k].runs)
    IN  Matrix("uint8", JoinBands([g \in 1..Len(groups) |->
            Band(groups[g][1],
                 RunsOf(BlurRow(row(groups[g][2][1]), row(groups[g][2][2]),
                                row(groups[g][2][3]))))]))

enhance_image(image) ==
    IF image.dtype # "uint8" \/ image.bands = <<>>
    THEN Raise("cv2.error")
    ELSE Return(GaussianBlur(equalizeHist(image)))

(***************************************************************************)
(* detect_teeth                                                            *)
(***************************************************************************)
\* a threshold that takes the threshold value itself as foreground
threshold_pixel_inclusive(v) == IF v >= Threshold THEN MaxVal ELSE 0

\* cv2.threshold(image, 127, 255, cv2.THRESH_BINARY) on one pixel
threshold_pixel(v) == IF v > Threshold THEN MaxVal ELSE 0

threshold(m) == MapValues("uint8", m, [v \in Values(m) |-> threshold_pixel(v)])

\* the runs of a matrix as rectangles: band k, columns x0..x1, rows y0..y1;
\* those of non-zero value when fg, those of value 0 otherwise
RunRects(m, fg) ==
    LET top(k) == SumSeq([i \in 1..(k - 1) |-> m.bands[i].n])
        left(k, j) == SumSeq([i \in 1..(j - 1) |-> m.bands[k].runs[i][1]])
    IN  {[k |-> kj[1], x0 |-> left(kj[1], kj[2]),
          x1 |-> left(kj[1], kj[2]) + m.bands[kj[1]].runs[kj[2]][1] - 1,
          y0 |-> top(kj[1]), y1 |-> top(kj[1]) + m.bands[kj[1]].n - 1] :
            kj \in {kj \in UNION {{<<k, j>> : j \in 1..Len(m.bands[k].runs)} :
                                     k \in 1..Len(m.bands)} :
                       (m.bands[kj[1]].runs[kj[2]][2] # 0) = fg}}

Foreground(m) == RunRects(m, TRUE)
Background(m) == RunRects(m, FALSE)

\* two such rectangles hold 8-connected pixels
Touching(a, b) ==
    /\ a.x0 <= b.x1 + 1
    /\ b.x0 <= a.x1 + 1
    /\ a.k - b.k \in {-1, 0, 1}

\* the connected component of the rectangles in C
RECURSIVE Component(_, _)
Component(C, all) ==
    LET more == {b \in all \ C : \E a \in C : Touching(a, b)} IN
    IF more = {} THEN C ELSE Component(C \cup more, all)

\* the first pixel of a component in raster order, as row * width + column
FirstPixel(C, W) ==
    LET y == SetMin({r.y0 : r \in C}) IN
    y * W + SetMin({r.x0 : r \in {r \in C : r.y0 = y}})

\* cv2.boundingRect of a component's outer contour
boundingRect(C) ==
    LET x == SetMin({r.x0 : r \in C})
        y == SetMin({r.y0 : r \in C})
    IN  <<x, y, SetMax({r.x1 : r \in C}) - x + 1, SetMax({r.y1 : r \in C}) - y + 1>>

\* two such rectangles hold 4-connected pixels
Adjacent4(a, b) ==
    \/ a.k = b.k /\ (a.x1 + 1 = b.x0 \/ b.x1 + 1 = a.x0)
    \/ a.k - b.k \in {-1, 1} /\ a.x0 <= b.x1 /\ b.x0 <= a.x1

\* the rectangle reaches the frame of a W x H matrix
OnFrame(r, W, H) == r.x0 = 0 \/ r.y0 = 0 \/ r.x1 = W - 1 \/ r.y1 = H - 1

\* the rectangles of all 4-connected to those of C
RECURSIVE Reach4(_, _)
Reach4(C, all) ==
    LET more == {b \in all \ C : \E a \in C : Adjacent4(a, b)} IN
    IF more = {} THEN C ELSE Reach4(C \cup more, all)

\* the background around the components: what is 4-connected to the frame
\* (the matrix is scanned with a border of zeros around it)
Outside(m) ==
    Reach4({b \in Background(m) : OnFrame(b, Width(m), Height(m))}, Background(m))

\* the order of the list cv2.findContours returns: the scan meets the
\* components at their first pixel in raster order, and the list holds them
\* last met first
RECURSIVE LastMetFirst(_, _)
LastMetFirst(Cs, W) ==
    IF Cs = {} THEN <<>>
    ELSE LET last == CHOOSE C \in Cs :
                         \A D \in Cs : FirstPixel(D, W) <= FirstPixel(C, W)
         IN  <<last>> \o LastMetFirst(Cs \ {last}, W)

\* cv2.findContours(RETR_EXTERNAL, CHAIN_APPROX_SIMPLE): the 8-connected
\* components that border on the outside background (or the frame), those
\* that lie in no hole of another component
findContours(m) ==
    LET all == Foreground(m)
        outside == Outside(m)
        external(C) == \E r \in C : \/ OnFrame(r, Width(m), Height(m))
                                     \/ \E b \in outside : Adjacent4(r, b)
    IN  LastMetFirst({C \in {Component({r}, all) : r \in all} : external(C)},
                     Width(m))

\* a size filter with inclusive bounds
size_filter_inclusive(r) ==
    r[3] >= MinSize /\ r[4] >= MinSize /\ r[3] <= MaxSize /\ r[4] <= MaxSize

\* the size filter of one bounding rectangle (x, y, w, h)
size_filter(r) == r[3] > MinSize /\ r[4] > MinSize /\ r[3] < MaxSize /\ r[4] < MaxSize

\* the loop over the contours' bounding rectangles
RECURSIVE filter_contours(_)
filter_contours(cs) ==
    IF cs = <<>> THEN <<>>
    ELSE LET rest == filter_contours(SubSeq(cs, 1, Len(cs) - 1))
             r == cs[Len(cs)]
         IN  IF size_filter(r) THEN Append(rest, r) ELSE rest

\* the bounding rectangles detect_teeth computes, in the list's order
bounding_rects(th) ==
    LET cs == findContours(th) IN [i \in 1..Len(cs) |-> boundingRect(cs[i])]

detect_teeth(image) == filter_contours(bounding_rects(threshold(image)))

(***************************************************************************)
(* number_teeth                                                            *)
(***************************************************************************)
Digit(d) ==
    CASE d = 0 -> "0" [] d = 1 -> "1" [] d = 2 -> "2" [] d = 3 -> "3"
      [] d = 4 -> "4" [] d = 5 -> "5" [] d = 6 -> "6" [] d = 7 -> "7"
      [] d = 8 -> "8" [] d = 9 -> "9"

\* str(n) for n >= 0
RECURSIVE str(_)
str(n) == IF n < 10 THEN Digit(n) ELSE str(n \div 10) \o Digit(n % 10)

\* f"Tooth {i+1}"
ToothLabel(i) == "Tooth " \o str(i + 1)

\* the sort key: lambda r: r[0]
sort_key(r) == r[1]

\* an insertion that puts r before the elements of equal key
RECURSIVE insert_sorted_unstable(_, _)
insert_sorted_unstable(s, r) ==
    IF s = <<>> THEN <<r>>
    ELSE IF sort_key(s[Len(s)]) < sort_key(r) THEN Append(s, r)
    ELSE Append(insert_sorted_unstable(SubSeq(s, 1, Len(s) - 1), r), s[Len(s)])

\* one insertion of a stable ascending sort: r goes after every element
\* whose key is not larger
RECURSIVE insert_sorted(_, _)
insert_sorted(s, r) ==
    IF s = <<>> THEN <<r>>
    ELSE IF sort_key(s[Len(s)]) <= sort_key(r) THEN Append(s, r)
    ELSE Append(insert_sorted(SubSeq(s, 1, Len(s) - 1), r), s[Len(s)])

\* sorted(regions, key=lambda r: r[0])
RECURSIVE sorted(_)
sorted(regions) ==
    IF regions = <<>> THEN <<>>
    ELSE insert_sorted(sorted(SubSeq(regions, 1, Len(regions) - 1)),
                       regions[Len(regions)])

\* a dict with one key per distinct x
number_teeth_by_distinct(regions) ==
    [i \in 0..(Cardinality({sort_key(r) : r \in Range(regions)}) - 1) |->
        ToothLabel(i)]

\* the dict built by the loop over enumerate(sorted_regions)
number_teeth(regions) ==
    [i \in 0..(Len(sorted(regions)) - 1) |-> ToothLabel(i)]

(***************************************************************************)
(* annotate_image, the descriptor, save_image_to_bytes                     *)
(***************************************************************************)
Green == <<0, 255, 0>>

\* cv2.cvtColor(original_image, cv2.COLOR_GRAY2BGR)
GRAY2BGR(m) == MapValues("uint8x3", m, [v \in Values(m) |-> <<v, v, v>>])

\* cv2.COLOR_BGR2RGB on one pixel or colour
BGR2RGB(p) == <<p[3], p[2], p[1]>>

\* the label looked up for the region at detection index i (0-based)
label_of(numbers, i) == numbers[i]

\* a drawing that looks the label up by the region's place in ascending x
draw_region_by_rank(regions, numbers, i) ==
    LET r == regions[i + 1]
        k == Cardinality({m \in 1..Len(regions) :
                 \/ regions[m][1] < r[1]
                 \/ regions[m][1] = r[1] /\ m < i + 1})
    IN
    [rectangle |-> [pt1 |-> <<r[1], r[2]>>, pt2 |-> <<r[1] + r[3], r[2] + r[4]>>,
                    color |-> Green, thickness |-> StrokeWidth],
     putText |-> [text |-> label_of(numbers, k), org |-> <<r[1], r[2] - TextLift>>,
                  color |-> Green, thickness |-> TextThickness]]

\* the two shapes drawn for the region at detection index i (0-based)
draw_region(regions, numbers, i) ==
    LET r == regions[i + 1] IN
    [rectangle |-> [pt1 |-> <<r[1], r[2]>>, pt2 |-> <<r[1] + r[3], r[2] + r[4]>>,
                    color |-> Green, thickness |-> StrokeWidth],
     putText |-> [text |-> label_of(numbers, i), org |-> <<r[1], r[2] - TextLift>>,
                  color |-> Green, thickness |-> TextThickness]]

\* a dict lookup numbers[i] for every index of regions raises KeyError
\* at the first missing key
missing_key(regions, numbers) ==
    \E i \in 0..(Len(regions) - 1) : i \notin DOMAIN numbers

annotate_image(image, regions, numbers) ==
    IF missing_key(regions, numbers) THEN Raise("KeyError")
    ELSE Return([px |-> GRAY2BGR(image),
                 drawn |-> [k \in 1..Len(regions) |->
                               draw_region(regions, numbers, k - 1)]])

\* an entry with x and y exchanged
teeth_entry_swapped(regions, numbers, i) ==
    LET r == regions[i + 1] IN
    [number |-> label_of(numbers, i),
     position |-> [x |-> r[2], y |-> r[1], width |-> r[3], height |-> r[4]]]

\* one entry of annotations_data["teeth"]
teeth_entry(regions, numbers, i) ==
    LET r == regions[i + 1] IN
    [number |-> label_of(numbers, i),
     position |-> [x |-> r[1], y |-> r[2], width |-> r[3], height |-> r[4]]]

make_annotations_data(regions, numbers) ==
    IF missing_key(regions, numbers) THEN Raise("KeyError")
    ELSE Return([teeth_count |-> Len(regions),
                 teeth |-> [k \in 1..Len(regions) |->
                               teeth_entry(regions, numbers, k - 1)]])

\* the PNG of a matrix: a two-dimensional one as it is, a three-channel one
\* with pixels and shapes in RGB order
save_image_to_bytes(image) ==
    IF image.px.dtype # "uint8x3"
    THEN Return([format |-> "PNG", px |-> image.px, drawn |-> image.drawn])
    ELSE
    Return([format |-> "PNG",
            px |-> MapValues("uint8x3", image.px,
                             [p \in Values(image.px) |-> BGR2RGB(p)]),
            drawn |-> [k \in 1..Len(image.drawn) |->
                [rectangle |-> [image.drawn[k].rectangle EXCEPT
                                   !.color = BGR2RGB(@)],
                 putText |-> [image.drawn[k].putText EXCEPT
                                   !.color = BGR2RGB(@)]]]])

(***************************************************************************)
(* main.py: the handlers' answers                                          *)
(***************************************************************************)
\* image.content_type.startswith("image/")
is_image_type(ct) == Len(ct) >= 6 /\ SubSeq(ct, 1, 6) = "image/"

HTTPException(code, detail) == [status_code |-> code, detail |-> detail]

\* base64.b64encode(annotated_image_bytes).decode('utf-8')
b64encode(bytes) == [base64 |-> bytes]

\* the return statement of the route's handler
handler_return(route, res) ==
    IF route = "/annotate/"
    THEN [status_code |-> 200, media_type |-> "image/png", content |-> res[1],
          headers |-> [X_Teeth_Count |-> str(res[2].teeth_count)]]
    ELSE [status_code |-> 200, media_type |-> "application/json",
          content |-> [image |-> b64encode(res[1]), annotations |-> res[2]]]

\* an except clause that answers as if the request had succeeded
handler_except_ok(e) == [status_code |-> 200, detail |-> "Error processing the image"]

\* the except clause of either handler
handler_except(e) == HTTPException(500, "Error processing the image")

(***************************************************************************)
(* The state machine: one request through a handler and the pipeline       *)
(***************************************************************************)
Init ==
    /\ pc = "request"
    /\ request = None
    /\ original_image = None
    /\ enhanced_image = None
    /\ thresh = None
    /\ contours = <<>>
    /\ teeth_regions = <<>>
    /\ sorted_regions = <<>>
    /\ tooth_numbers = <<>>
    /\ annotated_image = None
    /\ annotations_data = None
    /\ result = None
    /\ error = None
    /\ ran = <<>>
    /\ response = None

\* the statement after the one at position p in process_dental_image
next_pc(p) ==
    CASE p = "load" -> "enhance"
      [] p = "enhance" -> "detect"
      [] p = "detect" -> "number"
      [] p = "number" -> "annotate"
      [] p = "annotate" -> "assemble"
      [] p = "assemble" -> "encode"
      [] p = "encode" -> "return"

\* detect_teeth called on the decoder's matrix
detect_arg_original == Get(original_image)

\* the argument process_dental_image passes to detect_teeth
detect_arg == Get(enhanced_image)

\* the image process_dental_image passes to annotate_image
annotate_arg == Get(original_image)

\* a part without a Content-Type header: content_type is None and the check
\* itself raises AttributeError, outside the try
content_type_missing ==
    /\ pc = "request"
    /\ \E route \in Routes, b \in Buffers :
          request' = Some([route |-> route, content_type |-> None, image_bytes |-> b])
    /\ error' = Some("AttributeError")
    /\ pc' = "unhandled"
    /\ UNCHANGED <<original_image, enhanced_image, thresh, contours, teeth_regions,
                   sorted_regions, tooth_numbers, annotated_image, annotations_data,
                   result, ran, response>>

\* the handler's content type check fails: 400, nothing is read or processed
reject_upload ==
    /\ pc = "request"
    /\ \E route \in Routes, ct \in ContentTypes \ {None}, b \in Buffers :
          /\ ~is_image_type(Get(ct))
          /\ request' = Some([route |-> route, content_type |-> ct, image_bytes |-> b])
    /\ response' = Some(HTTPException(400, "File must be an image"))
    /\ pc' = "done"
    /\ UNCHANGED <<original_image, enhanced_image, thresh, contours, teeth_regions,
                   sorted_regions, tooth_numbers, annotated_image, annotations_data,
                   result, error, ran>>

\* the check passes: the handler enters the try and awaits image.read()
accept_upload ==
    /\ pc = "request"
    /\ \E route \in Routes, ct \in ContentTypes \ {None}, b \in Buffers :
          /\ is_image_type(Get(ct))
          /\ request' = Some([route |-> route, content_type |-> ct, image_bytes |-> b])
    /\ pc' = "read"
    /\ UNCHANGED <<original_image, enhanced_image, thresh, contours, teeth_regions,
                   sorted_regions, tooth_numbers, annotated_image, annotations_data,
                   result, error, ran, response>>

\* image.read() returns the bytes: the handler calls process_dental_image
read_upload ==
    /\ pc = "read"
    /\ pc' = "load"
    /\ UNCHANGED <<request, original_image, enhanced_image, thresh, contours,
                   teeth_regions, sorted_regions, tooth_numbers, annotated_image,
                   annotations_data, result, error, ran, response>>

\* an exception leaves process_dental_image: its locals are gone, the
\* handler's except clause is next
raised(e) ==
    /\ error' = Some(e)
    /\ pc' = "except"

\* image.read() raises: the except clause is next, no stage was entered
read_fault ==
    /\ pc = "read"
    /\ raised("OSError")
    /\ UNCHANGED <<request, original_image, enhanced_image, thresh, contours,
                   teeth_regions, sorted_regions, tooth_numbers, annotated_image,
                   annotations_data, result, ran, response>>

\* Step 1
step_load ==
    /\ pc = "load"
    /\ ran' = Append(ran, "load")
    /\ LET r == load_image(Get(request).image_bytes) IN
       IF r.exc # "none"
       THEN raised(r.exc) /\ UNCHANGED original_image
       ELSE original_image' = r.val /\ pc' = next_pc("load") /\ UNCHANGED error
    /\ UNCHANGED <<request, enhanced_image, thresh, contours, teeth_regions,
                   sorted_regions, tooth_numbers, annotated_image, annotations_data,
                   result, response>>

\* Step 2
step_enhance ==
    /\ pc = "enhance"
    /\ ran' = Append(ran, "enhance")
    /\ LET r == enhance_image(Get(original_image)) IN
       IF r.exc # "none"
       THEN raised(r.exc) /\ UNCHANGED enhanced_image
       ELSE enhanced_image' = r.val /\ pc' = next_pc("enhance") /\ UNCHANGED error
    /\ UNCHANGED <<request, original_image, thresh, contours, teeth_regions,
                   sorted_regions, tooth_numbers, annotated_image, annotations_data,
                   result, response>>

\* Step 3
step_detect ==
    /\ pc = "detect"
    /\ ran' = Append(ran, "detect")
    /\ thresh' = Some(threshold(detect_arg))
    /\ contours' = bounding_rects(threshold(detect_arg))
    /\ teeth_regions' = detect_teeth(detect_arg)
    /\ pc' = next_pc("detect")
    /\ UNCHANGED <<request, original_image, enhanced_image, sorted_regions,
                   tooth_numbers, annotated_image, annotations_data, result, error,
                   response>>

\* Step 4
step_number ==
    /\ pc = "number"
    /\ ran' = Append(ran, "number")
    /\ sorted_regions' = sorted(teeth_regions)
    /\ tooth_numbers' = number_teeth(teeth_regions)
    /\ pc' = next_pc("number")
    /\ UNCHANGED <<request, original_image, enhanced_image, thresh, contours,
                   teeth_regions, annotated_image, annotations_data, result, error,
                   response>>

\* Step 5
step_annotate ==
    /\ pc = "annotate"
    /\ ran' = Append(ran, "annotate")
    /\ LET r == annotate_image(annotate_arg, teeth_regions, tooth_numbers) IN
       IF r.exc # "none"
       THEN raised(r.exc) /\ UNCHANGED annotated_image
       ELSE annotated_image' = r.val /\ pc' = next_pc("annotate") /\ UNCHANGED error
    /\ UNCHANGED <<request, original_image, enhanced_image, thresh, contours,
                   teeth_regions, sorted_regions, tooth_numbers, annotations_data,
                   result, response>>

\* Step 6
step_assemble ==
    /\ pc = "assemble"
    /\ LET r == make_annotations_data(teeth_regions, tooth_numbers) IN
       IF r.exc # "none"
       THEN raised(r.exc) /\ UNCHANGED annotations_data
       ELSE annotations_data' = r.val /\ pc' = next_pc("assemble") /\ UNCHANGED error
    /\ UNCHANGED <<request, original_image, enhanced_image, thresh, contours,
                   teeth_regions, sorted_regions, tooth_numbers, annotated_image,
                   result, ran, response>>

\* Step 7 and the return statement
step_encode ==
    /\ pc = "encode"
    /\ ran' = Append(ran, "encode")
    /\ LET r == save_image_to_bytes(Get(annotated_image)) IN
       /\ result' = Some(<<Get(r.val), Get(annotations_data)>>)
       /\ pc' = next_pc("encode")
    /\ UNCHANGED <<request, original_image, enhanced_image, thresh, contours,
                   teeth_regions, sorted_regions, tooth_numbers, annotated_image,
                   annotations_data, error, response>>

\* a stage call runs out of memory: MemoryError leaves the pipeline
step_fault ==
    /\ pc \in Range(Stages)
    /\ ran' = Append(ran, pc)
    /\ raised("MemoryError")
    /\ UNCHANGED <<request, original_image, enhanced_image, thresh, contours,
                   teeth_regions, sorted_regions, tooth_numbers, annotated_image,
                   annotations_data, result, response>>

\* the handler's return statement
respond_ok ==
    /\ pc = "return"
    /\ response' = Some(handler_return(Get(request).route, Get(result)))
    /\ pc' = "done"
    /\ UNCHANGED <<request, original_image, enhanced_image, thresh, contours,
                   teeth_regions, sorted_regions, tooth_numbers, annotated_image,
                   annotations_data, result, error, ran>>

\* the handler's except clause
respond_error ==
    /\ pc = "except"
    /\ response' = Some(handler_except(Get(error)))
    /\ pc' = "done"
    /\ UNCHANGED <<request, original_image, enhanced_image, thresh, contours,
                   teeth_regions, sorted_regions, tooth_numbers, annotated_image,
                   annotations_data, result, error, ran>>

\* an exception no handler caught: the server answers 500 on its own
respond_unhandled ==
    /\ pc = "unhandled"
    /\ response' = Some(HTTPException(500, "Internal Server Error"))
    /\ pc' = "done"
    /\ UNCHANGED <<request, original_image, enhanced_image, thresh, contours,
                   teeth_regions, sorted_regions, tooth_numbers, annotated_image,
                   annotations_data, result, error, ran>>

Next ==
    \/ content_type_missing
    \/ reject_upload
    \/ accept_upload
    \/ read_upload
    \/ read_fault
    \/ step_load
    \/ step_enhance
    \/ step_detect
    \/ step_number
    \/ step_annotate
    \/ step_assemble
    \/ step_encode
    \/ step_fault
    \/ respond_ok
    \/ respond_error
    \/ respond_unhandled

Spec == Init /\ [][Next]_vars

(***************************************************************************)
(* number_teeth, annotate_image and the descriptor loop called on their    *)
(* own, on any list of regions                                             *)
(***************************************************************************)
\* x, y, w, h of the regions handed in
RegionBoxes ==
    {<<s[1], s[2], d[1], d[2]>> : s \in Slots, d \in Inside}

RECURSIVE ListsUpTo(_, _)
ListsUpTo(S, n) ==
    IF n = 0 THEN {<<>>}
    ELSE LET shorter == ListsUpTo(S, n - 1) IN
         shorter \cup {Append(l, b) : l \in {t \in shorter : Len(t) = n - 1}, b \in S}

RegionLists == ListsUpTo(RegionBoxes, MaxRegions)

InitDirect ==
    /\ pc = "number"
    /\ request = None
    /\ original_image = Some(Uniform("uint8", Small[1], Small[2], 0))
    /\ enhanced_image = None
    /\ thresh = None
    /\ contours = <<>>
    /\ teeth_regions \in RegionLists
    /\ sorted_regions = <<>>
    /\ tooth_numbers = <<>>
    /\ annotated_image = None
    /\ annotations_data = None
    /\ result = None
    /\ error = None
    /\ ran = <<>>
    /\ response = None

NextDirect ==
    \/ step_number
    \/ step_annotate
    \/ step_assemble

SpecDirect == InitDirect /\ [][NextDirect]_vars

(***************************************************************************)
(* Properties                                                              *)
(***************************************************************************)
\* the stage has been entered
Entered(stage) == stage \in Range(ran)

\* the stage has returned normally
Finished(stage) ==
    /\ Entered(stage)
    /\ \/ error = None
       \/ ran[Len(ran)] # stage

IsPrefix(s, t) == Len(s) <= Len(t) /\ s = SubSeq(t, 1, Len(s))

\* 1-based rank of the region at detection index j (1-based) in ascending x,
\* equal x in discovery order
Rank(regions, j) ==
    1 + Cardinality({m \in 1..Len(regions) :
                        \/ regions[m][1] < regions[j][1]
                        \/ regions[m][1] = regions[j][1] /\ m < j})

LabelText == <<"Tooth 1", "Tooth 2", "Tooth 3", "Tooth 4", "Tooth 5">>

NotAnImage == {"empty", "random", "truncated"}

\* the first column of every run and the first row of every band
ColumnStarts(m) ==
    UNION {{SumSeq([i \in 1..(j - 1) |-> m.bands[k].runs[i][1]]) :
               j \in 1..Len(m.bands[k].runs)} : k \in 1..Len(m.bands)}
RowStarts(m) ==
    {SumSeq([i \in 1..(k - 1) |-> m.bands[i].n]) : k \in 1..Len(m.bands)}

\* b is a everywhere f of a: both are constant on every cell of the grid
\* their runs and bands cut, so one pixel per cell stands for the cell
Pixelwise(a, b, f(_)) ==
    /\ Width(a) = Width(b)
    /\ Height(a) = Height(b)
    /\ \A x \in ColumnStarts(a) \cup ColumnStarts(b),
          y \in RowStarts(a) \cup RowStarts(b) :
            PixelAt(b, x, y) = f(PixelAt(a, x, y))

\* C1: with two detected regions of different x, the descriptor entry with the
\* smaller x is labelled "Tooth 1" and the one with the larger x "Tooth 2",
\* whatever the discovery order.
C1_LeftmostIsToothOne ==
    (result # None /\ Len(teeth_regions) = 2
        /\ teeth_regions[1][1] # teeth_regions[2][1]) =>
    LET teeth == Get(result)[2].teeth IN
    \A i, j \in 1..2 :
        teeth[i].position.x < teeth[j].position.x =>
            teeth[i].number = "Tooth 1" /\ teeth[j].number = "Tooth 2"

\* C2: every region detect_teeth returns has 20 < w < 100 and 20 < h < 100,
\* and every bounding box found with both dimensions strictly inside the
\* window is returned (as often as it was found).
C2_SizeFilter ==
    Finished("detect") =>
        /\ \A i \in 1..Len(teeth_regions) :
              /\ teeth_regions[i][3] \in (MinSize + 1)..(MaxSize - 1)
              /\ teeth_regions[i][4] \in (MinSize + 1)..(MaxSize - 1)
        /\ \A b \in Range(contours) :
              (b[3] \in (MinSize + 1)..(MaxSize - 1)
                  /\ b[4] \in (MinSize + 1)..(MaxSize - 1)) =>
              Cardinality({i \in 1..Len(teeth_regions) : teeth_regions[i] = b})
                  = Cardinality({i \in 1..Len(contours) : contours[i] = b})

C2_WitnessNested ==
    /\ Finished("detect")
    /\ Get(original_image) = Nested
    /\ contours = <<<<10, 10, 99, 99>>>>
    /\ teeth_regions = contours

C2_Witness ==
    /\ Finished("detect")
    /\ Len(contours) = 2
    /\ Len(teeth_regions) = 1
    /\ \E i \in 1..2 : contours[i][3] = MinSize \/ contours[i][4] = MaxSize

\* C3: number_teeth gives N regions exactly the labels "Tooth 1" .. "Tooth N",
\* one each, and "Tooth k" is the label made for the k-th region in
\* ascending x (equal x in discovery order).
C3_LabelsInAscendingX ==
    Finished("number") =>
        LET N == Len(teeth_regions) IN
        /\ DOMAIN tooth_numbers = 0..(N - 1)
        /\ \A k \in 1..N : tooth_numbers[k - 1] = LabelText[k]
        /\ Cardinality({tooth_numbers[i] : i \in DOMAIN tooth_numbers}) = N
        /\ Len(sorted_regions) = N
        /\ \A j \in 1..N : sorted_regions[Rank(teeth_regions, j)] = teeth_regions[j]

C3_Witness ==
    /\ Finished("number")
    /\ Len(teeth_regions) = 2
    /\ teeth_regions[1][1] = teeth_regions[2][1]
    /\ teeth_regions[1] # teeth_regions[2]
    /\ tooth_numbers[1] = "Tooth 2"

AtLeastThreshold(v) == IF v >= 127 THEN 255 ELSE 0
AboveThreshold(v) == IF v > 127 THEN 255 ELSE 0

\* C4 as stated: when detect_teeth has returned, every enhanced pixel >= 127
\* has become 255, every pixel < 127 has become 0.
C4_AtLeastThresholdIsForeground ==
    pc = "number" =>
        Pixelwise(Get(enhanced_image), Get(thresh), AtLeastThreshold)

\* C4 amended: when detect_teeth has returned, every enhanced pixel > 127 has
\* become 255, every pixel <= 127 (127 itself included) has become 0.
C4_AboveThresholdIsForeground ==
    pc = "number" =>
        Pixelwise(Get(enhanced_image), Get(thresh), AboveThreshold)

C4_Witness ==
    /\ pc = "number"
    /\ 127 \in Values(Get(enhanced_image))
    /\ Values(Get(thresh)) = {0}

C4_WitnessTie ==
    /\ pc = "number"
    /\ {127, 255} \subseteq Values(Get(enhanced_image))
    /\ Values(Get(thresh)) = {0, 255}
    /\ Len(contours) = 1

C4_WitnessBoth ==
    /\ pc = "number"
    /\ Values(Get(thresh)) = {0, 255}
    /\ \E v \in Values(Get(enhanced_image)) : v \in 1..126
    /\ \E v \in Values(Get(enhanced_image)) : v \in 128..254

\* C5: on success teeth_count is the number of detected regions and of teeth
\* entries, the i-th entry's position is the i-th detected region, and an
\* image with no region passing the filter succeeds with teeth_count = 0 and
\* no entries (nothing past detection raises on its own).
C5_DescriptorMatchesRegions ==
    /\ result # None =>
          LET d == Get(result)[2] IN
          /\ teeth_regions = detect_teeth(Get(enhanced_image))
          /\ d.teeth_count = Len(teeth_regions)
          /\ Len(d.teeth) = Len(teeth_regions)
          /\ \A i \in 1..Len(teeth_regions) :
                <<d.teeth[i].position.x, d.teeth[i].position.y,
                  d.teeth[i].position.width, d.teeth[i].position.height>>
                    = teeth_regions[i]
    /\ (Finished("detect") /\ error # None) => error = Some("MemoryError")
    /\ (pc = "done" /\ Finished("detect") /\ error = None) =>
          /\ result # None
          /\ Get(response).status_code = 200

C5_Witness ==
    /\ pc = "done"
    /\ result # None
    /\ Len(contours) > 0
    /\ Get(result)[2].teeth_count = 0
    /\ Get(result)[2].teeth = <<>>
    /\ Get(response).status_code = 200

C5_WitnessTwo ==
    /\ result # None
    /\ Get(result)[2].teeth_count = 2

\* the output a stage leaves in process_dental_image
Output(stage) ==
    CASE stage = "load" -> original_image
      [] stage = "enhance" -> enhanced_image
      [] stage = "detect" -> teeth_regions
      [] stage = "number" -> tooth_numbers
      [] stage = "annotate" -> annotated_image
      [] stage = "encode" -> result

\* C6: when a stage fails the invocation ends there: the failing stage is the
\* last one entered, no stage ran twice, no later stage (nor the descriptor
\* assembly, when it comes later) left an output, the caller has neither
\* bytes nor descriptor, and the handler answers with the generic 500; no
\* request that met an error is answered with a success.
C6_FailureIsTerminal ==
    /\ (error # None /\ ran # <<>>) =>
          /\ pc \in {"except", "done"}
          /\ IsPrefix(ran, Stages)
          /\ \A k \in (Len(ran) + 1)..Len(Stages) : Output(Stages[k]) = <<>>
          /\ Output(Stages[Len(ran)]) = <<>>
          /\ Len(ran) < Len(Stages) => annotations_data = None
          /\ result = None
          /\ pc = "except" => response = None
          /\ pc = "done" =>
                response = Some([status_code |-> 500,
                                 detail |-> "Error processing the image"])
    /\ (error # None /\ pc = "done") => Get(response).status_code = 500

C6_Witness ==
    /\ pc = "done"
    /\ error = Some("cv2.error")
    /\ ran = <<"load", "enhance">>
    /\ Get(response).status_code = 500

C6_WitnessLate ==
    /\ pc = "done"
    /\ error # None
    /\ ran = <<"load", "enhance", "detect", "number", "annotate">>
    /\ Len(teeth_regions) = 2

C6_WitnessRead ==
    /\ pc = "done"
    /\ error = Some("OSError")
    /\ ran = <<>>
    /\ response = Some([status_code |-> 500, detail |-> "Error processing the image"])

\* C7 as stated: for a buffer that is no image, load_image fails with
\* DecodeError and returns no matrix.
C7_FailsWithDecodeError ==
    (Entered("load") /\ Get(request).image_bytes.kind \in NotAnImage) =>
        /\ error = Some("DecodeError")
        /\ original_image = None

\* C7 amended: for a buffer that is no image, load_image fails with the
\* exception of the library call that rejected it (UnidentifiedImageError
\* for an unrecognised buffer, OSError for a truncated one) or with
\* MemoryError, never with a DecodeError kind of its own; it returns no
\* matrix and no later stage runs.
C7_FailsWithLibraryError ==
    (Entered("load") /\ Get(request).image_bytes.kind \in NotAnImage) =>
        /\ error = Some(IF Get(request).image_bytes.kind = "truncated"
                        THEN "OSError" ELSE "UnidentifiedImageError")
           \/ error = Some("MemoryError")
        /\ original_image = None
        /\ ran = <<"load">>

C7_Witness ==
    /\ Entered("load")
    /\ Get(request).image_bytes.kind = "truncated"
    /\ error = Some("OSError")
    /\ pc = "done"

\* C8: the stages run once each in the order load, enhance, detect, number,
\* annotate, encode, each after the previous one returned; the detector works
\* on the enhancer's output, and the annotator on the decoder's matrix, which
\* the enhancer left as decoded.
C8_StagesInOrder ==
    /\ IsPrefix(ran, Stages)
    /\ result # None => ran = Stages
    /\ Entered("enhance") => original_image # None
    /\ Entered("detect") => enhanced_image # None
    /\ Entered("encode") => annotated_image # None /\ annotations_data # None
    /\ Finished("load") =>
          original_image = load_image(Get(request).image_bytes).val
    /\ pc = "detect" =>
          enhanced_image = enhance_image(Get(original_image)).val
    /\ Finished("detect") => thresh = Some(threshold(Get(enhanced_image)))
    /\ Finished("annotate") =>
          Get(annotated_image).px = GRAY2BGR(Get(original_image))

C8_Witness ==
    /\ result # None
    /\ ran = Stages
    /\ Get(enhanced_image) # Get(original_image)
    /\ thresh # Some(threshold(Get(original_image)))
    /\ Get(annotated_image).px # GRAY2BGR(Get(enhanced_image))

\* C9: annotate_image draws on the region at detection index i the label
\* stored under key i, so the label drawn on a region is the label the
\* descriptor reports for that region.
C9_DrawnLabelIsDescriptorLabel ==
    /\ Finished("annotate") =>
          /\ Len(Get(annotated_image).drawn) = Len(teeth_regions)
          /\ \A i \in 1..Len(teeth_regions) :
                LET d == Get(annotated_image).drawn[i]
                    r == teeth_regions[i]
                IN  /\ d.putText.text = tooth_numbers[i - 1]
                    /\ d.putText.org = <<r[1], r[2] - 5>>
                    /\ d.rectangle.pt1 = <<r[1], r[2]>>
                    /\ d.rectangle.pt2 = <<r[1] + r[3], r[2] + r[4]>>
    /\ result # None =>
          LET png == Get(result)[1]
              teeth == Get(result)[2].teeth
          IN  /\ Len(png.drawn) = Len(teeth)
              /\ \A i \in 1..Len(teeth) :
                    /\ png.drawn[i].rectangle.pt1
                          = <<teeth[i].position.x, teeth[i].position.y>>
                    /\ png.drawn[i].putText.text = teeth[i].number

C9_Witness ==
    /\ result # None
    /\ Len(teeth_regions) = 2
    /\ teeth_regions[1][1] > teeth_regions[2][1]
    /\ Get(result)[1].drawn[1].putText.text = "Tooth 1"
    /\ Get(result)[1].drawn[1].rectangle.pt1[1] = 150
    /\ Rank(teeth_regions, 1) = 2

\* C10: the keys of the mapping number_teeth returns are exactly 0 .. N-1 for
\* N regions (none, equal x and identical regions included), so no lookup by
\* annotate_image or by the descriptor assembly fails on a missing key: both
\* return their value.
C10_KeysCoverEveryIndex ==
    /\ Finished("number") =>
          DOMAIN tooth_numbers = 0..(Len(teeth_regions) - 1)
    /\ error # Some("KeyError")
    /\ Finished("annotate") => annotated_image # None
    /\ pc = "encode" => annotations_data # None

C10_Witness ==
    /\ pc = "encode"
    /\ Len(teeth_regions) = 2
    /\ teeth_regions[1] = teeth_regions[2]
    /\ DOMAIN tooth_numbers = {0, 1}
    /\ Get(annotations_data).teeth_count = 2

C10_WitnessEqualX ==
    /\ pc = "encode"
    /\ Len(teeth_regions) = 2
    /\ teeth_regions[1][1] = teeth_regions[2][1]
    /\ teeth_regions[1] # teeth_regions[2]
    /\ DOMAIN tooth_numbers = {0, 1}

C10_WitnessEmpty ==
    /\ pc = "encode"
    /\ teeth_regions = <<>>
    /\ DOMAIN tooth_numbers = {}
    /\ Get(annotations_data).teeth_count = 0

====
